---------------------------- MODULE Spec2Model ----------------------------
(***************************************************************************)
(* ClickUp -> Intercom synchronisation (synch.py).                         *)
(*                                                                         *)
(* One process invocation of synch.py is a "run": main() dispatches on     *)
(* DELETE_MODE / CLEANUP_DUPLICATES, otherwise loads the checkpoint,       *)
(* checks team access, streams the tasks of the space list by list, page   *)
(* by page, upserts each task into Intercom, and saves the checkpoint.     *)
(* Every HTTP exchange is one step; the server's answer is an input.       *)
(* The source (ClickUp) may modify a task at any moment.                   *)
(***************************************************************************)
EXTENDS Integers, Sequences, FiniteSets, TLC

(***************************************************************************)
(* Bounds of the model.                                                    *)
(***************************************************************************)
MaxRuns == 2      \* process invocations in one behaviour
MaxRetry == 2     \* consecutive 429 answers to one logical request
PageSize == 1     \* tasks the source serves per page
MaxTitleLen == 3  \* characters of a title given to the title parser
MaxIdLen == 2     \* characters of a task id given to the title parser
MaxPage == 3      \* pages of a destination listing told apart

(***************************************************************************)
(* Program constants.                                                      *)
(***************************************************************************)
LOOKBACK_HOURS == 24
TitleMax == 255

(***************************************************************************)
(* The source workspace: one folder, its lists, the folderless lists and   *)
(* the tasks of each list, in the order the server serves them.  t1 is in  *)
(* two lists.  IG1 and IG2 stand for the two ids of IGNORED_LIST_IDS.      *)
(***************************************************************************)
Tasks == {"t1", "t2", "t3"}
Folders == <<"F1">>
ListsOfFolder(folder_id) == <<"L1", "IG1">>
FolderlessLists == <<"IG2", "L2", "L3">>
IGNORED_LIST_IDS == <<"IG1", "IG2">>
TasksOfList(lid) ==
    CASE lid = "L1" -> <<"t1", "t2">>
      [] lid = "L2" -> <<"t1">>
      [] lid = "IG1" -> <<"t3">>
      [] OTHER -> <<>>

TitleA == <<"A">>
TitleB == <<"B">>

Range(s) == {s[i] : i \in 1..Len(s)}
Min(a, b) == IF a < b THEN a ELSE b

(***************************************************************************)
(* Answers of a server to one send: 429, a 2xx, another status, or no      *)
(* answer at all (the requests library raises).                            *)
(***************************************************************************)
Resp == {"r429", "ok", "http_err", "net_err"}

VARIABLES
    \* environment of the process (os.getenv), fixed for a behaviour
    DELETE_MODE, CLEANUP_DUPLICATES, FETCH_ALL, DRY_RUN,
    \* ClickUp
    name,           \* task -> title
    updated,        \* task -> time of its last modification
    clock,          \* the current time
    \* Intercom
    docs,           \* the internal articles, in creation order
    nextId,         \* the id the next created article gets
    \* the checkpoint file SYNC_STATE_FILE
    stateFile,
    \* the process
    pc, runs,
    updated_after,  \* main: the watermark of the run
    count,          \* main: count
    fi,             \* fetch_clickup_tasks: index of the folder being walked
    lists, li,      \* fetch_clickup_tasks: the lists being walked, the index
    list_id, page, tasks, caller,   \* fetch_tasks_from_list
    asked,          \* page indices of the pass that were answered with a batch
    ti,             \* main: index in tasks of the task being upserted
    qi,             \* find_existing_article: index in search_queries
    existing,       \* upsert_internal_article: existing_article
    delq,           \* cleanup_duplicates: ids still to delete
    \* the transport: the logical request in progress or last resolved,
    \* recorded when observe is set
    tx, observe,
    \* history of the run (observers, not read by the program)
    reqLog,         \* kinds of request sent in this run
    fetched,        \* what each call of fetch_tasks_from_list returned in this run
    upserted,       \* tasks passed to upsert_internal_article in this run
    passed,         \* the team endpoint answered the access check of this run with a 2xx
    saves,          \* checkpoint writes in this run
    prevSaved,      \* the previous run wrote the checkpoint
    recFailed,      \* a destination request for the current task failed
    \* one function of the program run on its own (SpecUnits)
    unit,           \* the function: "none" while the program itself runs
    upc,            \* where its run is
    task_name,      \* task_to_html: len(task["name"])
    description,    \* task_to_html: len(markdown(desc)), 0 for no description
    html_body,      \* create/update_internal_article: html_body, a text
    listing_page,   \* fetch_all_articles, find_intercom_external_page_id: page
    src_title,      \* the title T of a task
    src_id,         \* the id S of a task
    clean_title,    \* cleanup_duplicates: clean_title
    CLICKUP_WEBHOOK_SECRET, \* app.py: the environment's webhook secret, "" when unset
    raw,            \* clickup_webhook: the body of the request
    x_signature,    \* clickup_webhook: the X-Signature header, "" when missing
    http_status,    \* clickup_webhook: the status answered
    calls           \* clickup_webhook: the helpers it called, in order

envVars == <<DELETE_MODE, CLEANUP_DUPLICATES, FETCH_ALL, DRY_RUN, name, observe>>
srcVars == <<updated, clock>>
dstVars == <<docs, nextId>>
walkVars == <<fi, lists, li>>
passVars == <<list_id, page, tasks, caller, asked>>
recVars == <<ti, qi, existing, recFailed>>
histVars == <<reqLog, fetched, upserted, passed, saves, prevSaved>>
progVars == <<envVars, srcVars, dstVars, stateFile, pc, runs, updated_after,
              count, walkVars, passVars, recVars, delq, tx, histVars>>
renderVars == <<task_name, description, html_body>>
listingVars == <<listing_page>>
titleVars == <<src_title, src_id, clean_title>>
hookVars == <<CLICKUP_WEBHOOK_SECRET, raw, x_signature, http_status, calls>>
unitVars == <<unit, upc, renderVars, listingVars, titleVars, hookVars>>
vars == <<progVars, unitVars>>


(***************************************************************************)
(* Requests.  One record shape for every request, so that two requests can *)
(* be compared: the fields a request does not use hold a default.          *)
(***************************************************************************)
Request(method, url, id, pg, hasGt, gt, query, title, body) ==
    [method |-> method, url |-> url, id |-> id, page |-> pg, hasGt |-> hasGt,
     gt |-> gt, query |-> query, title |-> title, body |-> body]

NoRequest == Request("none", <<>>, 0, 0, FALSE, 0, <<>>, <<>>, "none")

\* check_team_access: cu.get(team/{team_id})
TeamRequest == Request("GET", <<"team">>, 0, 0, FALSE, 0, <<>>, <<>>, "none")
\* fetch_folders: cu.get(space/{space_id}/folder)
FoldersRequest == Request("GET", <<"space", "folder">>, 0, 0, FALSE, 0, <<>>, <<>>, "none")
\* fetch_lists_from_folder: cu.get(folder/{folder_id}/list)
ListsRequest(folder_id) ==
    Request("GET", <<"folder", folder_id, "list">>, 0, 0, FALSE, 0, <<>>, <<>>, "none")
\* fetch_folderless_lists: cu.get(space/{space_id}/list)
FolderlessRequest == Request("GET", <<"space", "list">>, 0, 0, FALSE, 0, <<>>, <<>>, "none")

\* A variant of the conversion that leaves the watermark in seconds.
UpdatedGtSeconds(has_after, after) ==
    IF has_after /\ ~FETCH_ALL THEN [some |-> TRUE, ms |-> after]
    ELSE [some |-> FALSE, ms |-> 0]

\* fetch_tasks_from_list: updated_gt is the watermark in milliseconds, or None
\* (hasGt = FALSE) without a watermark or under FETCH_ALL.
UpdatedGt(has_after, after) ==
    IF has_after /\ ~FETCH_ALL THEN [some |-> TRUE, ms |-> after * 1000]
    ELSE [some |-> FALSE, ms |-> 0]

\* fetch_tasks_from_list: the parameters of the request for one page;
\* "if updated_gt:" leaves the filter out for None and for 0.
PageRequest(lid, p, ugt) ==
    Request("GET", <<"list", lid, "task">>, 0, p,
            ugt.some /\ ugt.ms # 0, IF ugt.some /\ ugt.ms # 0 THEN ugt.ms ELSE 0,
            <<>>, <<>>, "none")

\* find_existing_article: search_queries = [title, f"{title} [{task_id}]"]
SearchQueries(title, task_id) == <<title, title \o <<" ", "[", task_id, "]">>>>
SearchRequest(query) ==
    Request("GET", <<"internal_articles", "search">>, 0, 0, FALSE, 0, query, <<>>, "none")

\* create_internal_article / update_internal_article: "title": title[:255]
Truncate(title) == SubSeq(title, 1, Min(Len(title), TitleMax))
CreateRequest(task) ==
    Request("POST", <<"internal_articles">>, 0, 0, FALSE, 0, <<>>, Truncate(name[task]), task)
\* A variant of the update that sends the request with the wrong method.
UpdateByDelete(article_id, task) ==
    Request("DELETE", <<"internal_articles">>, article_id, 0, FALSE, 0, <<>>,
            Truncate(name[task]), task)

UpdateRequest(article_id, task) ==
    Request("PUT", <<"internal_articles">>, article_id, 0, FALSE, 0, <<>>,
            Truncate(name[task]), task)
\* cleanup_duplicates: ic.get(internal_articles), ic.delete(internal_articles/{id})
ListingRequest == Request("GET", <<"internal_articles">>, 0, 0, FALSE, 0, <<>>, <<>>, "none")
DeleteRequest(article_id) ==
    Request("DELETE", <<"internal_articles">>, article_id, 0, FALSE, 0, <<>>, <<>>, "none")

IsPageRequest(r) == r.method = "GET" /\ Len(r.url) = 3 /\ r.url[1] = "list"
IsWrite(r) == r.method \in {"POST", "PUT", "DELETE"}

(***************************************************************************)
(* The transport.  Every call site sends, and while _rate_limit_sleep      *)
(* answers True sends the same request again.  tx is the logical request   *)
(* in progress (done = FALSE) or the last one resolved.                    *)
(***************************************************************************)
IdleTx == [req |-> NoRequest, sent |-> <<>>, resps |-> <<>>, sleeps |-> 0, done |-> TRUE]

\* A variant of the limiter that sends again after any answer but a 2xx.
RetryOnAnyFailure(resp) == resp # "ok"

\* A variant of the limiter that never sleeps: a 429 is an error like another.
NoRateLimit(resp) == FALSE

\* _rate_limit_sleep: sleeps and answers True exactly on a 429
_rate_limit_sleep(resp) == resp = "r429"

\* The base of the exchange: the retry loop in progress, or a new request.
TxBase(req) ==
    IF tx.done THEN [req |-> req, sent |-> <<>>, resps |-> <<>>, sleeps |-> 0, done |-> FALSE]
    ELSE tx

\* r = session.send(req); in the loop "while _rate_limit_sleep(r): r = send(req)"
Exchange(req, resp) ==
    LET b == TxBase(req) IN
    IF ~observe THEN tx ELSE
    [req |-> b.req, sent |-> Append(b.sent, req), resps |-> Append(b.resps, resp),
     sleeps |-> b.sleeps + (IF _rate_limit_sleep(resp) THEN 1 ELSE 0),
     done |-> ~_rate_limit_sleep(resp)]

\* A send outside any retry loop (cleanup_duplicates): the answer is final.
ExchangeOnce(req, resp) ==
    IF ~observe THEN tx ELSE
    [req |-> req, sent |-> <<req>>, resps |-> <<resp>>, sleeps |-> 0, done |-> TRUE]

\* Where the transport is recorded, the model lets a server answer 429 at
\* most MaxRetry times in a row.
MayAnswer(resp) == (observe /\ resp = "r429") => Len(TxBase(NoRequest).resps) < MaxRetry

(***************************************************************************)
(* ClickUp serves the tasks of a list that match the filter, PageSize per  *)
(* page, page 0 first.                                                     *)
(***************************************************************************)
Matching(lid, req) ==
    SelectSeq(TasksOfList(lid), LAMBDA t : ~req.hasGt \/ updated[t] * 1000 > req.gt)

PageOf(lid, req) ==
    LET m == Matching(lid, req) IN
    SubSeq(m, req.page * PageSize + 1, Min((req.page + 1) * PageSize, Len(m)))

(***************************************************************************)
(* Intercom.  An article: its id, its title, the task it was created for   *)
(* (src) and the task whose content its body holds.  The search answers    *)
(* with the articles whose title is the query, oldest first.               *)
(***************************************************************************)
Article(id, title, src, body) == [id |-> id, title |-> title, src |-> src, body |-> body]

SearchResult(query) == SelectSeq(docs, LAMBDA a : a.title = query)

Created(req) == Append(docs, Article(nextId, req.title, req.body, req.body))

Overwritten(req) ==
    [i \in 1..Len(docs) |->
        IF docs[i].id = req.id THEN [docs[i] EXCEPT !.title = req.title, !.body = req.body]
        ELSE docs[i]]

Deleted(req) == SelectSeq(docs, LAMBDA a : a.id # req.id)

InitDocs ==
    { <<>>,
      <<Article(1, TitleA \o <<" ", "[", "t1", "]">>, "t1", "t1")>>,
      <<Article(1, TitleA, "t3", "t3"), Article(2, TitleA \o <<" ", "[", "t1", "]">>, "t1", "t1")>> }

(***************************************************************************)
(* The checkpoint file: absent, not JSON, JSON whose last_sync_iso is not  *)
(* an ISO timestamp, or JSON holding a timestamp.                          *)
(***************************************************************************)
File(kind, ts) == [kind |-> kind, ts |-> ts]
InitFiles == {File("absent", 0), File("badjson", 0), File("badts", 0), File("ok", 1)}

\* _load_state: {} when the file is absent, else json.load of it (which raises
\* on a file that is not JSON).
_load_state == IF stateFile.kind = "absent" THEN File("empty", 0) ELSE stateFile

\* A variant of the write that leaves the file as it is.
KeepState(now) == stateFile

\* main: state["last_sync_iso"] = now_iso; _save_state(state)
_save_state(now) == File("ok", now)

(***************************************************************************)
(* cleanup_duplicates: the title an article is grouped under, and the ids  *)
(* it deletes.                                                             *)
(***************************************************************************)
RECURSIVE Strip(_)
Strip(s) ==
    IF s = <<>> THEN s
    ELSE IF Head(s) = " " THEN Strip(Tail(s))
    ELSE IF s[Len(s)] = " " THEN Strip(SubSeq(s, 1, Len(s) - 1))
    ELSE s

LastIndexOf(s, c) ==
    LET at == {i \in 1..Len(s) : s[i] = c} IN
    IF at = {} THEN 0 ELSE CHOOSE i \in at : \A j \in at : j <= i

\* A variant that forgets .strip()
CleanTitleUnstripped(title) ==
    IF LastIndexOf(title, "[") = 0 THEN title
    ELSE SubSeq(title, 1, LastIndexOf(title, "[") - 1)

\* title.rsplit('[', 1)[0].strip() if '[' in title else title
CleanTitle(title) ==
    IF LastIndexOf(title, "[") = 0 THEN title
    ELSE Strip(SubSeq(title, 1, LastIndexOf(title, "[") - 1))

\* for title, ids in title_to_ids.items(): if len(ids) > 1: to_delete = ids[1:]
ToDelete(articles) ==
    LET first(i) == CHOOSE j \in 1..i :
                       /\ CleanTitle(articles[j].title) = CleanTitle(articles[i].title)
                       /\ \A k \in 1..(j - 1) :
                            CleanTitle(articles[k].title) # CleanTitle(articles[i].title)
        dup == SelectSeq([i \in 1..Len(articles) |-> i], LAMBDA i : first(i) # i)
        ord == SortSeq(dup, LAMBDA a, b : first(a) < first(b) \/ (first(a) = first(b) /\ a < b))
    IN [k \in 1..Len(ord) |-> articles[ord[k]].id]

(***************************************************************************)
(* The initial states: any environment, any of the destination states of   *)
(* InitDocs, any of the checkpoint files of InitFiles (a checkpoint, if    *)
(* any, was written at time 1); every task was last modified at time 1;    *)
(* it is time 2.                                                           *)
(***************************************************************************)
\* No function is run on its own.
NoRender == task_name = 0 /\ description = 0 /\ html_body = <<>>
NoListing == listing_page = 0
NoTitle == src_title = <<>> /\ src_id = <<>> /\ clean_title = <<>>
NoBody == [kind |-> "none", event |-> "", task_id |-> ""]
NoHook ==
    /\ CLICKUP_WEBHOOK_SECRET = <<>> /\ raw = NoBody /\ x_signature = <<>>
    /\ http_status = 0 /\ calls = <<>>

NoUnit ==
    /\ unit = "none" /\ upc = "none"
    /\ NoRender /\ NoListing /\ NoTitle /\ NoHook

InitProgram ==
    /\ DELETE_MODE \in BOOLEAN
    /\ CLEANUP_DUPLICATES \in BOOLEAN
    /\ FETCH_ALL \in BOOLEAN
    /\ DRY_RUN \in BOOLEAN
    /\ name = [t \in Tasks |-> IF t = "t2" THEN TitleB ELSE TitleA]
    /\ clock = 2
    /\ docs \in InitDocs
    /\ nextId = Len(docs) + 1
    /\ stateFile \in InitFiles
    /\ pc = "idle"
    /\ runs = 0
    /\ updated_after = 0
    /\ count = 0
    /\ fi = 0 /\ lists = <<>> /\ li = 0
    /\ list_id = "none" /\ page = 0 /\ tasks = <<>> /\ caller = "none" /\ asked = <<>>
    /\ ti = 0 /\ qi = 0 /\ existing = 0 /\ recFailed = FALSE
    /\ delq = <<>>
    /\ tx = IdleTx
    /\ reqLog = {} /\ fetched = <<>> /\ upserted = <<>> /\ passed = FALSE
    /\ saves = 0 /\ prevSaved = FALSE

Init ==
    /\ InitProgram
    /\ NoUnit
    /\ updated = [t \in Tasks |-> 1]
    /\ observe = FALSE

(***************************************************************************)
(* A user of ClickUp modifies a task: its modification time becomes the    *)
(* current time.  Time is counted in checkpoints: it advances when a run   *)
(* writes its checkpoint, so whatever is modified before the write is not  *)
(* later than the checkpoint, and whatever is modified after it is.  The   *)
(* time of a task of an ignored list is never read and is left alone.      *)
(***************************************************************************)
\* A variant of the exclusion test that excludes nothing.
NothingIgnored(lid) == FALSE

\* fetch_clickup_tasks: str(lst.get("id")) in IGNORED_LIST_IDS
Ignored(lid) == lid \in Range(IGNORED_LIST_IDS)

Watched == UNION {Range(TasksOfList(l)) : l \in {"L1", "L2", "L3"}}

Modify(t) ==
    /\ t \in Watched
    /\ updated[t] < clock
    /\ updated' = [updated EXCEPT ![t] = clock]
    /\ UNCHANGED <<unitVars, envVars, clock, dstVars, stateFile, pc, runs, updated_after, count,
                   walkVars, passVars, recVars, delq, tx, histVars>>

(***************************************************************************)
(* fetch_clickup_tasks: where the generator goes after the list at index   *)
(* from - 1 of ls (folder index f): the next list that is not ignored, or  *)
(* the lists of the next folder, or the folderless lists, or its end.      *)
(***************************************************************************)
\* A variant of the first page index: the pass starts one page too far.
FirstPageSkipped == 0 + 1

\* fetch_tasks_from_list: page = 0
FirstPage == 0

NextList(from, ls, f) ==
    LET open == {j \in from..Len(ls) : ~Ignored(ls[j])} IN
    IF open # {}
    THEN LET j == CHOOSE k \in open : \A m \in open : k <= m IN
         /\ pc' = "page"
         /\ fi' = f /\ lists' = ls /\ li' = j
         /\ list_id' = ls[j] /\ page' = FirstPage /\ tasks' = <<>> /\ caller' = "sync"
         /\ asked' = <<>>
    ELSE /\ pc' = IF f < Len(Folders) THEN "lists"
                  ELSE IF f = Len(Folders) THEN "folderless" ELSE "save"
         /\ fi' = f + 1 /\ lists' = <<>> /\ li' = 0
         /\ UNCHANGED passVars

(***************************************************************************)
(* main, lines 384-392: the try around upsert_internal_article is inside   *)
(* the loop, and the functions it calls catch their own exceptions: the    *)
(* loop goes on whatever happened to the record.                           *)
(***************************************************************************)
\* A variant with the try outside the loop: a failed record ends the stream.
AbortOnFailure(failed) == IF failed THEN "abort" ELSE "continue"

PerRecordBoundary(failed) == "continue"

\* main: count += 1 and the next task of the stream, after upsert returned
AfterRecord(failed) ==
    IF PerRecordBoundary(failed) = "continue"
    THEN /\ count' = count + 1
         /\ existing' = 0 /\ recFailed' = FALSE
         /\ IF ti < Len(tasks)
            THEN /\ ti' = ti + 1 /\ qi' = 1 /\ pc' = "search"
                 /\ upserted' = Append(upserted, tasks[ti + 1])
                 /\ UNCHANGED <<walkVars, passVars>>
            ELSE /\ ti' = 0 /\ qi' = 0
                 /\ NextList(li + 1, lists, fi)
                 /\ UNCHANGED upserted
    ELSE /\ pc' = "save"
         /\ UNCHANGED <<count, existing, recFailed, ti, qi, upserted, walkVars, passVars>>

(***************************************************************************)
(* main: the process starts.  DELETE_MODE and CLEANUP_DUPLICATES dispatch; *)
(* otherwise the checkpoint is loaded and the watermark computed.  An      *)
(* exception nothing catches ends the process (pc = "crashed").            *)
(***************************************************************************)
StartRun ==
    /\ pc \in {"idle", "done", "crashed"}
    /\ runs < MaxRuns
    /\ runs' = runs + 1
    /\ tx' = IdleTx
    /\ reqLog' = {} /\ fetched' = <<>> /\ upserted' = <<>> /\ passed' = FALSE
    /\ saves' = 0 /\ prevSaved' = (saves > 0)
    /\ count' = 0
    /\ ti' = 0 /\ qi' = 0 /\ existing' = 0 /\ recFailed' = FALSE
    /\ fi' = 0 /\ lists' = <<>> /\ li' = 0
    /\ delq' = <<>>
    /\ UNCHANGED <<unitVars, envVars, srcVars, dstVars, stateFile>>

\* A fresh process holds nothing of the previous one.
FreshPass ==
    list_id' = "none" /\ page' = 0 /\ tasks' = <<>> /\ caller' = "none" /\ asked' = <<>>
FreshMain == updated_after' = 0

\* main: last_sync_iso and not FETCH_ALL
HasCheckpoint(st) == st.kind \in {"ok", "badts"} /\ ~FETCH_ALL

\* A variant of the watermark that never reads the checkpoint.
WatermarkLookback(st, now) == now - LOOKBACK_HOURS

\* main: the watermark of the run
Watermark(st, now) == IF HasCheckpoint(st) THEN st.ts ELSE now - LOOKBACK_HOURS

main ==
    /\ StartRun
    /\ \/ /\ DELETE_MODE
          \* delete_guides_from_ignored_lists: fetch_tasks_from_list(list_id)
          /\ pc' = "page"
          /\ list_id' = IGNORED_LIST_IDS[1] /\ page' = FirstPage /\ tasks' = <<>>
          /\ caller' = "delete" /\ asked' = <<>>
          /\ FreshMain
       \/ /\ ~DELETE_MODE /\ CLEANUP_DUPLICATES
          /\ pc' = "listing"
          /\ FreshMain /\ FreshPass
       \/ /\ ~DELETE_MODE /\ ~CLEANUP_DUPLICATES
          /\ IF stateFile.kind = "badjson"
             THEN \* json.load raises
                  /\ pc' = "crashed"
                  /\ FreshMain
             ELSE IF HasCheckpoint(_load_state) /\ _load_state.kind = "badts"
             THEN \* datetime.fromisoformat raises
                  /\ pc' = "crashed"
                  /\ updated_after' = 0
             ELSE /\ pc' = "team"
                  /\ updated_after' = Watermark(_load_state, clock)
          /\ FreshPass

(***************************************************************************)
(* check_team_access: the access check of a sync run.  Any failure but a   *)
(* 429 makes main return.                                                  *)
(***************************************************************************)
\* A variant of the access check that lets every answer pass.
AlwaysGranted(resp) == TRUE

\* check_team_access: r.raise_for_status() returns on a 2xx, raises otherwise
AccessGranted(resp) == resp = "ok"

check_team_access(resp) ==
    /\ pc = "team"
    /\ MayAnswer(resp)
    /\ tx' = Exchange(TeamRequest, resp)
    /\ reqLog' = reqLog \cup {"team"}
    /\ IF _rate_limit_sleep(resp) THEN UNCHANGED <<pc, passed>>
       ELSE /\ pc' = IF AccessGranted(resp) THEN "folders" ELSE "done"
            /\ passed' = (resp = "ok")
    /\ UNCHANGED <<unitVars, envVars, srcVars, dstVars, stateFile, runs, updated_after, count,
                   walkVars, passVars, recVars, delq, fetched, upserted, saves, prevSaved>>

(***************************************************************************)
(* fetch_clickup_tasks: the three listing requests of the generator.  A    *)
(* failure raises out of the generator into main's outer except.           *)
(***************************************************************************)
Walk(req, kind, resp, ls, f) ==
    /\ MayAnswer(resp)
    /\ tx' = Exchange(req, resp)
    /\ reqLog' = reqLog \cup {kind}
    /\ IF _rate_limit_sleep(resp) THEN UNCHANGED <<pc, walkVars, passVars>>
       ELSE IF resp = "ok" THEN NextList(1, ls, f)
       ELSE pc' = "save" /\ UNCHANGED <<walkVars, passVars>>
    /\ UNCHANGED <<unitVars, envVars, srcVars, dstVars, stateFile, runs, updated_after, count,
                   recVars, delq, fetched, upserted, passed, saves, prevSaved>>

fetch_folders(resp) ==
    /\ pc = "folders"
    /\ Walk(FoldersRequest, "folders", resp, <<>>, 0)

fetch_lists_from_folder(resp) ==
    /\ pc = "lists"
    /\ Walk(ListsRequest(Folders[fi]), "lists", resp, ListsOfFolder(Folders[fi]), fi)

fetch_folderless_lists(resp) ==
    /\ pc = "folderless"
    /\ Walk(FolderlessRequest, "lists", resp, FolderlessLists, fi)

\* A variant of the increment that skips a page.
SkipAPage(pg) == pg + 2

\* fetch_tasks_from_list: page += 1
FollowingPage(pg) == pg + 1

(***************************************************************************)
(* fetch_tasks_from_list: one page request.  An empty page ends the pass   *)
(* and returns tasks; in delete_guides_from_ignored_lists the next line    *)
(* reads TEST_LIMIT_TASKS, which nothing defines (NameError).              *)
(***************************************************************************)
fetch_tasks_from_list(resp) ==
    LET ugt == UpdatedGt(caller = "sync", updated_after)
        req == PageRequest(list_id, page, ugt)
        batch == PageOf(list_id, req)
    IN
    /\ pc = "page"
    /\ MayAnswer(resp)
    /\ tx' = Exchange(req, resp)
    /\ reqLog' = reqLog \cup {"page"}
    /\ IF _rate_limit_sleep(resp)
       THEN UNCHANGED <<pc, walkVars, passVars, recVars, fetched, upserted>>
       ELSE IF resp # "ok"
       THEN \* r.raise_for_status() or the send raises
            /\ pc' = IF caller = "sync" THEN "save" ELSE "crashed"
            /\ UNCHANGED <<walkVars, passVars, recVars, fetched, upserted>>
       ELSE IF batch # <<>>
       THEN /\ tasks' = tasks \o batch
            /\ page' = FollowingPage(page)
            /\ asked' = Append(asked, req.page)
            /\ UNCHANGED <<pc, walkVars, list_id, caller, recVars, fetched, upserted>>
       ELSE /\ fetched' = Append(fetched, [list |-> list_id, request |-> req, tasks |-> tasks,
                                          pages |-> Append(asked, req.page)])
            /\ IF caller = "delete"
               THEN \* tasks[:TEST_LIMIT_TASKS]: NameError
                    /\ pc' = "crashed"
                    /\ UNCHANGED <<walkVars, passVars, recVars, upserted>>
               ELSE IF tasks = <<>>
               THEN /\ NextList(li + 1, lists, fi)
                    /\ UNCHANGED <<recVars, upserted>>
               ELSE /\ pc' = "search"
                    /\ ti' = 1 /\ qi' = 1 /\ existing' = 0 /\ recFailed' = FALSE
                    /\ upserted' = Append(upserted, tasks[1])
                    /\ UNCHANGED <<walkVars, passVars>>
    /\ UNCHANGED <<unitVars, envVars, srcVars, dstVars, stateFile, runs, updated_after, count,
                   delq, passed, saves, prevSaved>>

\* A variant of the resolver that creates whatever the search found.
UpsertAlwaysCreates(existing_article) == "create"

\* upsert_internal_article: update the article found, else create one
upsert_internal_article(existing_article) ==
    IF existing_article THEN "update" ELSE "create"

(***************************************************************************)
(* upsert_internal_article, first part: find_existing_article sends one    *)
(* search per query.  A query that fails is logged and the next one tried; *)
(* with no article found the task goes to create_internal_article, with    *)
(* one found to update_internal_article.  Under DRY_RUN both only log.     *)
(***************************************************************************)
(* A dry run that skips the write of an upsert and forgets the delete.     *)
(***************************************************************************)
DryRunSkipsUpsertOnly(op) == DRY_RUN /\ op # "delete"

(***************************************************************************)
(* "if DRY_RUN:" in create_internal_article (lines 239-241),               *)
(* update_internal_article (275-277) and cleanup_duplicates (349-351): the *)
(* operation is logged and the request is not sent.                        *)
(***************************************************************************)
DryRunSkips(op) == DRY_RUN

(***************************************************************************)
find_existing_article(resp) ==
    LET task == tasks[ti]
        query == SearchQueries(name[task], task)[qi]
        articles == SearchResult(query)
        found == resp = "ok" /\ articles # <<>>
    IN
    /\ pc = "search"
    /\ MayAnswer(resp)
    /\ tx' = Exchange(SearchRequest(query), resp)
    /\ reqLog' = reqLog \cup {"search"}
    /\ IF _rate_limit_sleep(resp)
       THEN UNCHANGED <<pc, count, walkVars, passVars, recVars, upserted>>
       ELSE IF ~found /\ qi < Len(SearchQueries(name[task], task))
       THEN \* "continue" in the loop over search_queries
            /\ qi' = qi + 1
            /\ recFailed' = (recFailed \/ resp # "ok")
            /\ UNCHANGED <<pc, count, walkVars, passVars, ti, existing, upserted>>
       ELSE IF DryRunSkips("upsert")
       THEN AfterRecord(FALSE)
       ELSE /\ pc' = upsert_internal_article(found)
            /\ existing' = IF found THEN articles[1].id ELSE 0
            /\ recFailed' = (recFailed \/ resp # "ok")
            /\ UNCHANGED <<count, walkVars, passVars, ti, qi, upserted>>
    /\ UNCHANGED <<unitVars, envVars, srcVars, dstVars, stateFile, runs, updated_after,
                   delq, fetched, passed, saves, prevSaved>>

(***************************************************************************)
(* create_internal_article: the POST.  200 or 201 creates the article; any *)
(* other answer, and any exception, is logged and None returned.           *)
(***************************************************************************)
create_internal_article(resp) ==
    LET req == CreateRequest(tasks[ti]) IN
    /\ pc = "create"
    /\ MayAnswer(resp)
    /\ tx' = Exchange(req, resp)
    /\ reqLog' = reqLog \cup {"create"}
    /\ IF _rate_limit_sleep(resp)
       THEN UNCHANGED <<pc, count, walkVars, passVars, recVars, upserted, dstVars>>
       ELSE /\ IF resp = "ok"
               THEN docs' = Created(req) /\ nextId' = nextId + 1
               ELSE UNCHANGED dstVars
            /\ AfterRecord(resp # "ok")
    /\ UNCHANGED <<unitVars, envVars, srcVars, stateFile, runs, updated_after,
                   delq, fetched, passed, saves, prevSaved>>

(***************************************************************************)
(* update_internal_article: the PUT on the article found.                  *)
(***************************************************************************)
update_internal_article(resp) ==
    LET req == UpdateRequest(existing, tasks[ti]) IN
    /\ pc = "update"
    /\ MayAnswer(resp)
    /\ tx' = Exchange(req, resp)
    /\ reqLog' = reqLog \cup {"update"}
    /\ IF _rate_limit_sleep(resp)
       THEN UNCHANGED <<pc, count, walkVars, passVars, recVars, upserted, dstVars>>
       ELSE /\ IF resp = "ok"
               THEN docs' = Overwritten(req) /\ UNCHANGED nextId
               ELSE UNCHANGED dstVars
            /\ AfterRecord(resp # "ok")
    /\ UNCHANGED <<unitVars, envVars, srcVars, stateFile, runs, updated_after,
                   delq, fetched, passed, saves, prevSaved>>

(***************************************************************************)
(* main, lines 393-396: the checkpoint is written with the current time.   *)
(***************************************************************************)
save_checkpoint ==
    /\ pc = "save"
    /\ stateFile' = _save_state(clock)
    /\ clock' = clock + 1
    /\ saves' = saves + 1
    /\ pc' = "done"
    /\ UNCHANGED <<unitVars, envVars, updated, dstVars, runs, updated_after, count,
                   walkVars, passVars, recVars, delq, tx, reqLog, fetched, upserted,
                   passed, prevSaved>>

(***************************************************************************)
(* cleanup_duplicates: one listing request and one DELETE per duplicate,   *)
(* neither in a retry loop; raise_for_status and a failing send raise.     *)
(***************************************************************************)
cleanup_duplicates(resp) ==
    /\ pc = "listing"
    /\ tx' = ExchangeOnce(ListingRequest, resp)
    /\ reqLog' = reqLog \cup {"listing"}
    /\ IF resp # "ok" THEN pc' = "crashed" /\ UNCHANGED delq
       ELSE IF DryRunSkips("delete") \/ ToDelete(docs) = <<>> THEN pc' = "done" /\ UNCHANGED delq
       ELSE pc' = "deleting" /\ delq' = ToDelete(docs)
    /\ UNCHANGED <<unitVars, envVars, srcVars, dstVars, stateFile, runs, updated_after, count,
                   walkVars, passVars, recVars, fetched, upserted, passed, saves, prevSaved>>

cleanup_delete(resp) ==
    LET req == DeleteRequest(Head(delq)) IN
    /\ pc = "deleting"
    /\ tx' = ExchangeOnce(req, resp)
    /\ reqLog' = reqLog \cup {"delete"}
    /\ IF resp = "net_err"
       THEN pc' = "crashed" /\ UNCHANGED <<delq, dstVars>>
       ELSE /\ delq' = Tail(delq)
            /\ pc' = IF Tail(delq) = <<>> THEN "done" ELSE "deleting"
            /\ IF resp = "ok" THEN docs' = Deleted(req) /\ UNCHANGED nextId
               ELSE UNCHANGED dstVars
    /\ UNCHANGED <<unitVars, envVars, srcVars, stateFile, runs, updated_after, count,
                   walkVars, passVars, recVars, fetched, upserted, passed, saves, prevSaved>>

Step ==
    \/ main
    \/ \E resp \in Resp : check_team_access(resp)
    \/ \E resp \in Resp : fetch_folders(resp)
    \/ \E resp \in Resp : fetch_lists_from_folder(resp)
    \/ \E resp \in Resp : fetch_folderless_lists(resp)
    \/ \E resp \in Resp : fetch_tasks_from_list(resp)
    \/ \E resp \in Resp : find_existing_article(resp)
    \/ \E resp \in Resp : create_internal_article(resp)
    \/ \E resp \in Resp : update_internal_article(resp)
    \/ save_checkpoint
    \/ \E resp \in Resp : cleanup_duplicates(resp)
    \/ \E resp \in Resp : cleanup_delete(resp)

Next ==
    \/ Step
    \/ \E t \in Tasks : Modify(t)

Spec == Init /\ [][Next]_vars

(***************************************************************************)
(* The same program against a source nobody modifies while it runs, with   *)
(* the transport recorded: any subset of the watched tasks was modified    *)
(* (time 2) since the time 1 of a checkpoint.                              *)
(***************************************************************************)
InitTraced ==
    /\ InitProgram
    /\ NoUnit
    /\ updated \in {u \in [Tasks -> {1, 2}] : \A t \in Tasks \ Watched : u[t] = 1}
    /\ observe = TRUE

SpecTraced == InitTraced /\ [][Step]_vars

(***************************************************************************)
(* Functions run on their own.  The program stays as it starts; one        *)
(* function is given an input and taken through its steps.                 *)
(***************************************************************************)
ProgramIdle ==
    /\ InitProgram
    /\ ~DELETE_MODE /\ ~CLEANUP_DUPLICATES /\ ~FETCH_ALL /\ ~DRY_RUN
    /\ docs = <<>> /\ stateFile = File("absent", 0)
    /\ updated = [t \in Tasks |-> 1]
    /\ observe = FALSE

(***************************************************************************)
(* task_to_html and the payload of create_internal_article and             *)
(* update_internal_article.  A text is a sequence of segments, each a kind *)
(* and a number of characters, so that lengths are the lengths of the      *)
(* source: the body cap is 50000 characters.                               *)
(***************************************************************************)
BodyMax == 50000
\* len("<h1>") + len("</h1>")
H1Len == 9
\* len("(Без названия)")
UntitledLen == 14
\* len("<p><em>Нет описания</em></p>")
PlaceholderLen == 28
\* len("<p><em>Описание урезано из-за длины</em></p>")
MarkerLen == 44

Seg(kind, n) == [kind |-> kind, len |-> n]

RECURSIVE TextLen(_)
TextLen(text) == IF text = <<>> THEN 0 ELSE Head(text).len + TextLen(Tail(text))

\* text[:n]
RECURSIVE Slice(_, _)
Slice(text, n) ==
    IF text = <<>> \/ n <= 0 THEN <<>>
    ELSE IF Head(text).len <= n
         THEN <<Head(text)>> \o Slice(Tail(text), n - Head(text).len)
         ELSE <<Seg(Head(text).kind, n)>>

\* task_to_html, for a name that html.escape leaves as it is
task_to_html(name_len, desc_len) ==
    LET title_len == IF name_len = 0 THEN UntitledLen ELSE name_len
        body_html == IF desc_len = 0 THEN <<Seg("placeholder", PlaceholderLen)>>
                     ELSE <<Seg("description", desc_len)>>
        capped == IF TextLen(body_html) > BodyMax
                  THEN Slice(body_html, BodyMax) \o <<Seg("marker", MarkerLen)>>
                  ELSE body_html
    IN  <<Seg("h1", H1Len + title_len)>> \o capped

\* create/update_internal_article: if len(html_body) > 50000: html_body[:50000]
PayloadBody(text) == IF TextLen(text) > BodyMax THEN Slice(text, BodyMax) ELSE text

NameLens == {0, 1, 40, 255}
DescLens == {0, 1, 49000, 49956, 49990, 50000, 50001, 50044, 60000}

InitRender ==
    /\ unit \in {"create_internal_article", "update_internal_article"}
    /\ upc = "task"
    /\ task_name \in NameLens
    /\ description \in DescLens
    /\ html_body = <<>>
    /\ NoListing /\ NoTitle /\ NoHook

\* html_body = task_to_html(task)
RenderTask ==
    /\ unit \in {"create_internal_article", "update_internal_article"}
    /\ upc = "task"
    /\ html_body' = task_to_html(task_name, description)
    /\ upc' = "html"
    /\ UNCHANGED <<progVars, unit, task_name, description, listingVars, titleVars, hookVars>>

\* the cap, and the payload: "body": html_body
BuildPayload ==
    /\ unit \in {"create_internal_article", "update_internal_article"}
    /\ upc = "html"
    /\ html_body' = PayloadBody(html_body)
    /\ upc' = "payload"
    /\ UNCHANGED <<progVars, unit, task_name, description, listingVars, titleVars, hookVars>>

(***************************************************************************)
(* The two loops over a listing of Intercom: fetch_all_articles            *)
(* (delete_internal_guides.py) and find_intercom_external_page_id          *)
(* (app.py).  Neither reads the page index but to send it, or to compare   *)
(* it with the total the same answer gives: the pages from MaxPage - 1 on  *)
(* are told apart by their parity only.                                    *)
(***************************************************************************)
Listings == {"fetch_all_articles", "find_intercom_external_page_id"}

\* What the server can answer one request of a listing.
\*   fetch_all_articles: an error status, an empty batch, a batch
\*   find_intercom_external_page_id: an error status, a page holding the
\*   item, a page without it that is the last (no "pages", or total_pages
\*   <= page), a page without it and total_pages > page
ListingAnswers(fn) ==
    IF fn = "fetch_all_articles" THEN {"http_err", "empty", "batch"}
    ELSE {"http_err", "found", "last", "more"}

InitListing ==
    /\ unit \in Listings
    /\ upc = "request"
    /\ listing_page = 1
    /\ NoRender /\ NoTitle /\ NoHook

\* page += 1
NextPage(pg) == IF pg < MaxPage THEN pg + 1 ELSE MaxPage - 1

fetch_all_articles(answer) ==
    /\ unit = "fetch_all_articles"
    /\ upc = "request"
    /\ CASE answer = "http_err" -> upc' = "raised" /\ UNCHANGED listing_page
         [] answer = "empty" -> upc' = "returned" /\ UNCHANGED listing_page
         [] answer = "batch" -> listing_page' = NextPage(listing_page) /\ UNCHANGED upc
    /\ UNCHANGED <<progVars, unit, renderVars, titleVars, hookVars>>

find_intercom_external_page_id(answer) ==
    /\ unit = "find_intercom_external_page_id"
    /\ upc = "request"
    /\ CASE answer = "http_err" -> upc' = "raised" /\ UNCHANGED listing_page
         [] answer \in {"found", "last"} -> upc' = "returned" /\ UNCHANGED listing_page
         [] answer = "more" -> listing_page' = NextPage(listing_page) /\ UNCHANGED upc
    /\ UNCHANGED <<progVars, unit, renderVars, titleVars, hookVars>>

(***************************************************************************)
(* cleanup_duplicates, line 339, on the title "<T> [<S>]" of a task of     *)
(* title T and id S.                                                       *)
(***************************************************************************)
Strings(alphabet, n) == UNION {[1..k -> alphabet] : k \in 0..n}

\* f"{title} [{task_id}]"
WithId(title, task_id) == title \o <<" ", "[">> \o task_id \o <<"]">>

InitTitle ==
    /\ unit = "cleanup_duplicates"
    /\ upc = "title"
    /\ src_title \in Strings({"A", " "}, MaxTitleLen)
    /\ src_id \in Strings({"1", "["}, MaxIdLen) \ {<<>>}
    /\ clean_title = <<>>
    /\ NoRender /\ NoListing /\ NoHook

CleanOneTitle ==
    /\ unit = "cleanup_duplicates"
    /\ upc = "title"
    /\ clean_title' = CleanTitle(WithId(src_title, src_id))
    /\ upc' = "clean_title"
    /\ UNCHANGED <<progVars, unit, src_title, src_id, renderVars, listingVars, hookVars>>

(***************************************************************************)
(* app.py, the webhook receiver.  A body is what request.get_data() and    *)
(* request.json make of it: JSON with an event and a task id ("" for none) *)
(* or not JSON at all.                                                     *)
(***************************************************************************)
Events == {"taskCreated", "taskUpdated", "taskDeleted", "taskMoved"}

Bodies ==
    [kind : {"json"}, event : Events, task_id : {"", "t1"}]
        \cup {[kind |-> "text", event |-> "", task_id |-> ""]}

Secrets == {<<>>, <<"k">>, <<"q">>}

(***************************************************************************)
(* hmac.new(secret, raw_body, sha256).hexdigest(): lower-case hexadecimal  *)
(* digits of a number that the key and the body decide.  On the keys and   *)
(* bodies above no two (key, body) pairs have the same digest.             *)
(***************************************************************************)
HexDigits == <<"0", "1", "2", "3", "4", "5", "6", "7", "8", "9", "a", "b", "c", "d", "e", "f">>
UpperHexDigits ==
    <<"0", "1", "2", "3", "4", "5", "6", "7", "8", "9", "A", "B", "C", "D", "E", "F">>

KeyCode(key) == IF key = <<>> THEN 0 ELSE IF key = <<"k">> THEN 1 ELSE 2

BodyCode(raw_body) ==
    IF raw_body.kind # "json" THEN 0
    ELSE (IF raw_body.task_id = "" THEN 1 ELSE 2)
            + 2 * (CASE raw_body.event = "taskCreated" -> 0
                     [] raw_body.event = "taskUpdated" -> 1
                     [] raw_body.event = "taskDeleted" -> 2
                     [] OTHER -> 3)

Sha256(key, raw_body) == (37 * KeyCode(key) + 11 * BodyCode(raw_body) + 13) % 256

HexOf(n, digits) == <<digits[(n \div 16) + 1], digits[(n % 16) + 1]>>

hexdigest(key, raw_body) == HexOf(Sha256(key, raw_body), HexDigits)

\* a character outside ASCII, such as U+00E9
NonAscii == "U+00E9"

\* what a client can put in the X-Signature header of a request with this
\* body: nothing, the digest under some key of this or of another body, the
\* digest in upper case, or text that is not ASCII (a WSGI header is the
\* latin-1 decoding of its bytes)
Signatures(raw_body) ==
    {<<>>, <<NonAscii>>}
        \cup {hexdigest(key, b) : key \in Secrets \ {<<>>}, b \in {raw_body, NoBody}}
        \cup {HexOf(Sha256(key, raw_body), UpperHexDigits) : key \in Secrets \ {<<>>}}

IsAscii(text) == \A i \in 1..Len(text) : text[i] # NonAscii

(***************************************************************************)
(* hmac.compare_digest(a, b) on two str: TypeError when one of them holds  *)
(* a character that is not ASCII, otherwise whether they are equal.        *)
(***************************************************************************)
compare_digest(a, b) ==
    IF ~IsAscii(a) \/ ~IsAscii(b) THEN "TypeError"
    ELSE IF a = b THEN "True" ELSE "False"

(***************************************************************************)
(* verify_clickup_signature, lines 157-163.                                *)
(***************************************************************************)
verify_clickup_signature(raw_body, secret) ==
    IF secret = <<>> THEN "False"
    ELSE compare_digest(hexdigest(secret, raw_body), x_signature)

InitHook ==
    /\ unit = "clickup_webhook"
    /\ upc = "request"
    /\ CLICKUP_WEBHOOK_SECRET \in Secrets
    /\ raw \in Bodies
    /\ x_signature \in Signatures(raw)
    /\ http_status = 0
    /\ calls = <<>>
    /\ NoRender /\ NoListing /\ NoTitle

(***************************************************************************)
(* clickup_webhook, lines 183-221, for one request.  The signature is      *)
(* checked when a secret is configured; an exception that leaves the view  *)
(* is answered 500 by Flask.  request.json of a body that is not JSON is   *)
(* None, a 400 or a 415, as the version of Flask has it.  outcome is how   *)
(* the calls to ClickUp and Intercom went.                                 *)
(***************************************************************************)
clickup_webhook(outcome, not_json) ==
    LET ok == verify_clickup_signature(raw, CLICKUP_WEBHOOK_SECRET) IN
    /\ unit = "clickup_webhook"
    /\ upc = "request"
    /\ upc' = "answered"
    /\ IF CLICKUP_WEBHOOK_SECRET # <<>> /\ ok = "TypeError"
       THEN http_status' = 500 /\ calls' = <<>>
       ELSE IF CLICKUP_WEBHOOK_SECRET # <<>> /\ ok = "False"
       THEN http_status' = 401 /\ calls' = <<>>
       ELSE IF raw.kind # "json"
       THEN http_status' = not_json /\ calls' = <<>>
       ELSE IF raw.event \in {"taskCreated", "taskUpdated"}
       THEN IF raw.task_id = ""
            THEN http_status' = 400 /\ calls' = <<>>
            ELSE IF outcome = "fetch_failed"
            THEN http_status' = 500 /\ calls' = <<"fetch_task">>
            ELSE /\ http_status' = IF outcome = "ok" THEN 200 ELSE 500
                 /\ calls' = <<"fetch_task", "sync_task_to_intercom">>
       ELSE IF raw.event = "taskDeleted"
       THEN IF raw.task_id = ""
            THEN http_status' = 400 /\ calls' = <<>>
            ELSE /\ http_status' = IF outcome = "ok" THEN 200 ELSE 500
                 /\ calls' = <<"ensure_intercom_source",
                               "delete_intercom_external_page_by_external_id">>
       ELSE http_status' = 200 /\ calls' = <<>>
    /\ UNCHANGED <<progVars, unit, CLICKUP_WEBHOOK_SECRET, raw, x_signature,
                   renderVars, listingVars, titleVars>>

InitUnits == ProgramIdle /\ (InitRender \/ InitListing \/ InitTitle \/ InitHook)

NextUnits ==
    \/ RenderTask
    \/ BuildPayload
    \/ \E answer \in ListingAnswers("fetch_all_articles") : fetch_all_articles(answer)
    \/ \E answer \in ListingAnswers("find_intercom_external_page_id") :
            find_intercom_external_page_id(answer)
    \/ CleanOneTitle
    \/ \E outcome \in {"ok", "fetch_failed", "failed"}, not_json \in {200, 400, 415} :
            clickup_webhook(outcome, not_json)

SpecUnits == InitUnits /\ [][NextUnits]_vars /\ WF_vars(NextUnits)

(***************************************************************************)
(*                              The claims                                 *)
(***************************************************************************)
InSync == ~DELETE_MODE /\ ~CLEANUP_DUPLICATES

\* No watched task was modified since the last checkpoint write.
Quiet == \A t \in Watched : updated[t] < clock

RECURSIVE Flatten(_)
Flatten(passes) ==
    IF passes = <<>> THEN <<>> ELSE Head(passes).tasks \o Flatten(Tail(passes))

IsPrefix(s, t) == Len(s) <= Len(t) /\ SubSeq(t, 1, Len(s)) = s

(***************************************************************************)
(* C1, as claimed: when a sync run that wrote its checkpoint is followed   *)
(* by another with no change to the source since, the second run sends no  *)
(* create request.                                                         *)
(***************************************************************************)
C1_SecondRunCreatesNothing ==
    (InSync /\ runs >= 2 /\ prevSaved /\ Quiet /\ saves = 0) => "create" \notin reqLog

(***************************************************************************)
(* C1, amended: the same with FETCH_ALL unset, so that the second run's    *)
(* watermark is the first run's checkpoint.                                *)
(***************************************************************************)
C1_SecondRunCreatesNothingFromCheckpoint ==
    (InSync /\ ~FETCH_ALL /\ runs >= 2 /\ prevSaved /\ Quiet /\ saves = 0)
        => "create" \notin reqLog

\* The second run of such a pair has walked the whole space and is about to
\* write its checkpoint, the destination holding what the first run created.
C1_Witness ==
    /\ InSync /\ ~FETCH_ALL /\ ~DRY_RUN /\ runs = 2 /\ prevSaved /\ Quiet
    /\ pc = "save" /\ "page" \in reqLog /\ fi > Len(Folders)
    /\ \E i \in 1..Len(docs) : docs[i].src = "t2"

(***************************************************************************)
(* C2, as claimed: in sync mode there is at most one article per source    *)
(* task, whatever the runs did.                                            *)
(***************************************************************************)
C2_OneArticlePerTask ==
    InSync => \A t \in Tasks : Cardinality({i \in 1..Len(docs) : docs[i].src = t}) <= 1

(***************************************************************************)
(* C3, as claimed: when a sync run has written its checkpoint, every       *)
(* watched task modified after the run's watermark was passed to           *)
(* upsert_internal_article in the run or is later than the checkpoint.     *)
(***************************************************************************)
C3_NoMissedRecord ==
    (InSync /\ pc = "done" /\ saves = 1) =>
        \A t \in Watched :
            updated[t] > updated_after =>
                (t \in Range(upserted) \/ updated[t] > stateFile.ts)

(***************************************************************************)
(* C4: every call of fetch_tasks_from_list that returned, returned the     *)
(* tasks of the list that match its filter, each once, in the server's     *)
(* order (the source is not modified in SpecTraced).                       *)
(***************************************************************************)
C4_PaginationComplete ==
    \A i \in 1..Len(fetched) :
        fetched[i].tasks = Matching(fetched[i].list, fetched[i].request)

\* Passes over an empty result, over one full page and over a page more.
C4_Witness ==
    /\ \E i \in 1..Len(fetched) : fetched[i].tasks = <<>>
    /\ \E i \in 1..Len(fetched) : Len(fetched[i].tasks) = PageSize
    /\ \E i \in 1..Len(fetched) : Len(fetched[i].tasks) = PageSize + 1

(***************************************************************************)
(* C5, as claimed: no task page request is ever sent for a list of         *)
(* IGNORED_LIST_IDS.                                                       *)
(***************************************************************************)
C5_NoPageRequestOnIgnoredList ==
    IsPageRequest(tx.req) => ~(tx.req.url[2] \in Range(IGNORED_LIST_IDS))

(***************************************************************************)
(* C5, amended: with DELETE_MODE unset, no task page request is ever sent  *)
(* for a list of IGNORED_LIST_IDS.                                         *)
(***************************************************************************)
C5_NoPageRequestOnIgnoredListOutsideDeleteMode ==
    (~DELETE_MODE /\ IsPageRequest(tx.req)) => ~(tx.req.url[2] \in Range(IGNORED_LIST_IDS))

\* A sync run pages L2, the list that follows the ignored IG2.
C5_Witness ==
    /\ InSync /\ IsPageRequest(tx.req) /\ tx.req.url[2] = "L2"
    /\ lists = FolderlessLists /\ li = 2

(***************************************************************************)
(* C6: a request sent in a retry loop (every request but the two of        *)
(* cleanup_duplicates) that is answered 429, 429, 200 is resolved once,    *)
(* with the 200, after exactly three sends of the same request and two     *)
(* sleeps; after the first 429 and after the second it is not resolved.    *)
(***************************************************************************)
Retried(req) == req # ListingRequest /\ req.method # "DELETE"

C6_RateLimitTransparent ==
    (Retried(tx.req) /\ tx.resps # <<>> /\ IsPrefix(tx.resps, <<"r429", "r429", "ok">>)) =>
        /\ Len(tx.sent) = Len(tx.resps)
        /\ \A i \in 1..Len(tx.sent) : tx.sent[i] = tx.req
        /\ tx.sleeps = Cardinality({i \in 1..Len(tx.resps) : tx.resps[i] = "r429"})
        /\ tx.done = (tx.resps = <<"r429", "r429", "ok">>)

\* A create and a page request that were answered 429, 429, 200.
C6_Witness ==
    /\ tx.resps = <<"r429", "r429", "ok">> /\ tx.done
    /\ tx.req.method = "POST"

(***************************************************************************)
(* C7: a sync run whose access check passed and that has ended wrote the   *)
(* checkpoint once, with the time of the write; and a run has no write     *)
(* behind it before it has ended.                                          *)
(***************************************************************************)
C7_CheckpointAdvance ==
    /\ (InSync /\ passed /\ pc \in {"done", "crashed"}) =>
            (pc = "done" /\ saves = 1 /\ stateFile = File("ok", clock - 1))
    /\ saves > 0 => (pc = "done" /\ saves = 1)

\* Such a run in which a create failed.
C7_Witness ==
    /\ InSync /\ passed /\ pc = "done" /\ saves = 1
    /\ "create" \in reqLog /\ docs = <<>>

(***************************************************************************)
(* C8: a sync run whose access check was answered with a failure that is   *)
(* no 429 has ended having sent nothing but that check and without         *)
(* writing the checkpoint.                                                 *)
(***************************************************************************)
C8_FatalSetupFailure ==
    (InSync /\ "team" \in reqLog /\ ~passed /\ pc # "team") =>
        (pc = "done" /\ reqLog = {"team"} /\ saves = 0)

C8_Witness ==
    InSync /\ "team" \in reqLog /\ ~passed /\ pc = "done" /\ stateFile.kind = "ok"

(***************************************************************************)
(* C9: in a sync run, every task a call of fetch_tasks_from_list returned  *)
(* is passed to upsert_internal_article, in order, whatever happened to    *)
(* the tasks before it: all of them once the loop over the list is over,   *)
(* the first ti of the last list while it is walked.                       *)
(***************************************************************************)
C9_FailureIsolation ==
    InSync =>
        IF pc \in {"search", "create", "update"}
        THEN upserted = Flatten(SubSeq(fetched, 1, Len(fetched) - 1)) \o SubSeq(tasks, 1, ti)
        ELSE upserted = Flatten(fetched)

\* Three tasks were passed on although every create failed.
C9_Witness ==
    /\ InSync /\ pc = "done" /\ Len(upserted) = 3
    /\ "create" \in reqLog /\ "update" \notin reqLog /\ docs = <<>>

(***************************************************************************)
(* C10, as claimed: no destination write is sent for a task after a        *)
(* destination request made for it has failed.  The run is at "create" or  *)
(* "update" only with DRY_RUN unset, and its step from there sends the     *)
(* POST or the PUT of the task.                                            *)
(***************************************************************************)
C10_SkipAfterFailure ==
    pc \in {"create", "update"} => ~recFailed

QueriesOfRecord == Range(SearchQueries(name[tasks[ti]], tasks[ti]))

C12_EmbeddedIdInTitle ==
    tx.req.method = "POST" =>
        tx.req.title = Truncate(name[tx.req.body] \o <<" ", "[", tx.req.body, "]">>)

(***************************************************************************)
(* C13, as claimed: the lower bound of every task page request of a sync   *)
(* run, in milliseconds, is the checkpoint's timestamp when a checkpoint   *)
(* is present and FETCH_ALL is unset, and the current time minus           *)
(* LOOKBACK_HOURS in every other case.  (Before the run writes the file,   *)
(* stateFile is what it loaded and clock the time it started at.)          *)
(***************************************************************************)
C13_EffectiveWatermark ==
    (InSync /\ IsPageRequest(tx.req) /\ saves = 0) =>
        /\ tx.req.hasGt
        /\ tx.req.gt = 1000 * (IF stateFile.kind = "ok" /\ ~FETCH_ALL
                               THEN stateFile.ts ELSE clock - LOOKBACK_HOURS)

(***************************************************************************)
(* C13, amended: with FETCH_ALL unset the lower bound is the checkpoint's  *)
(* timestamp when a checkpoint is present and the current time minus       *)
(* LOOKBACK_HOURS when none is; with FETCH_ALL set the task page requests  *)
(* carry no lower bound.                                                   *)
(***************************************************************************)
C13_EffectiveWatermarkUnlessFetchAll ==
    (InSync /\ IsPageRequest(tx.req) /\ saves = 0) =>
        IF FETCH_ALL
        THEN ~tx.req.hasGt
        ELSE /\ tx.req.hasGt
             /\ tx.req.gt = 1000 * (IF stateFile.kind = "ok"
                                    THEN stateFile.ts ELSE clock - LOOKBACK_HOURS)

\* The second run pages a list from the checkpoint the first run wrote.
C13_Witness ==
    /\ InSync /\ ~FETCH_ALL /\ runs = 2 /\ saves = 0 /\ prevSaved
    /\ IsPageRequest(tx.req) /\ tx.req.hasGt /\ tx.req.gt = 2000

(***************************************************************************)
(* C14, as claimed: a sync run started on a state file that is absent or   *)
(* malformed (not JSON, or holding no ISO timestamp) goes on, with the     *)
(* current time minus LOOKBACK_HOURS as its watermark.                     *)
(***************************************************************************)
C14_CheckpointLoadTolerance ==
    (InSync /\ runs >= 1 /\ saves = 0 /\ stateFile.kind \in {"absent", "badjson", "badts"}) =>
        (pc # "crashed" /\ updated_after = clock - LOOKBACK_HOURS)

(***************************************************************************)
(* C15, as claimed: the body sent for a task whose rendered description is *)
(* longer than BodyMax ends with the truncation marker.                    *)
(***************************************************************************)
C15_BodyCapWithMarker ==
    (upc = "payload" /\ description > BodyMax) =>
        html_body[Len(html_body)] = Seg("marker", MarkerLen)

(***************************************************************************)
(* C16, as claimed: a loop over a listing of the destination ends,         *)
(* whatever the server answers.                                            *)
(***************************************************************************)
C16_ListingTerminates ==
    (unit \in Listings) ~> (upc \in {"returned", "raised"})

(***************************************************************************)
(* C17: no step of a sync run sends a DELETE, and every article there is   *)
(* before the step is there after it.                                      *)
(***************************************************************************)
C17_SyncNeverDeletes ==
    [][InSync =>
         /\ tx'.req.method # "DELETE"
         /\ \A i \in 1..Len(docs) : \E j \in 1..Len(docs') : docs'[j].id = docs[i].id]_vars

\* A sync run that updated and created has ended with the two articles it
\* started with and one more.
C17_Witness ==
    /\ InSync /\ pc = "done" /\ saves = 1
    /\ "update" \in reqLog /\ "create" \in reqLog
    /\ Len(docs) = 3 /\ docs[1].id = 1 /\ docs[2].id = 2

NoOuterSpace(s) == s = <<>> \/ (s[1] # " " /\ s[Len(s)] # " ")

C19_NeverDroppedOn429 ==
    (tx.resps # <<>> /\ tx.resps[Len(tx.resps)] = "r429") => ~tx.done

(***************************************************************************)
(* C20: the page protocol of a pass of fetch_tasks_from_list.              *)
(***************************************************************************)
\* 0, 1, ..., n - 1
Upto(n) == [i \in 1..n |-> i - 1]

\* The batch the source holds at page pg for the request of a pass.
BatchAt(lid, req, pg) == PageOf(lid, [req EXCEPT !.page = pg])

\* The pages a pass in progress was answered, and those of each pass that
\* returned, are 0, 1, 2, ... in order; each but the last of a pass that
\* returned held a batch, and the last, on which it returned, was empty.
PagesInOrder ==
    /\ asked = Upto(Len(asked))
    /\ pc = "page" => page = Len(asked)
    /\ \A i \in 1..Len(fetched) :
          LET f == fetched[i]
              k == Len(f.pages) - 1
          IN  /\ f.pages = Upto(k + 1)
              /\ f.request.page = k
              /\ BatchAt(f.list, f.request, k) = <<>>
              /\ \A j \in 0..(k - 1) : BatchAt(f.list, f.request, j) # <<>>

\* The pass over list_id is over and did not return.
PassCutShort ==
    /\ list_id # "none" /\ pc # "page"
    /\ \A i \in 1..Len(fetched) : fetched[i].list # list_id

(***************************************************************************)
(* C20, as claimed: the pages are asked in order, and a pass ends only on  *)
(* an empty page.                                                          *)
(***************************************************************************)
C20_PageProtocol == PagesInOrder /\ ~PassCutShort

(***************************************************************************)
(* C20, amended: the pages are asked in order, and a pass ends on an empty *)
(* page, on which it returns, or on an answer to a page request that is an *)
(* error other than a 429, which it raises.                                *)
(***************************************************************************)
C20_PageProtocolOrError ==
    /\ PagesInOrder
    /\ PassCutShort =>
          /\ IsPageRequest(tx.req) /\ tx.req.url[2] = list_id /\ tx.done
          /\ tx.resps[Len(tx.resps)] \in {"http_err", "net_err"}

\* A pass over L1 that asked the pages 0, 1 and 2 with a 429 on the way.
C20_Witness ==
    /\ \E i \in 1..Len(fetched) : fetched[i].list = "L1" /\ fetched[i].pages = <<0, 1, 2>>
    /\ IsPageRequest(tx.req) /\ tx.req.url[2] = "L1" /\ tx.done
    /\ tx.resps = <<"r429", "ok">>

(***************************************************************************)
(* C21: once a folder, list or task page request of a sync run was         *)
(* answered with an error that is no 429, no step of that run sends a      *)
(* request, passes a task to upsert_internal_article or changes an         *)
(* article.                                                                *)
(***************************************************************************)
SourceRequestFailed ==
    /\ tx.req.method = "GET" /\ tx.req.url # <<>>
    /\ tx.req.url[1] \in {"space", "folder", "list"}
    /\ tx.resps # <<>> /\ tx.resps[Len(tx.resps)] \in {"http_err", "net_err"}

C21_EnumerationErrorEndsTraversal ==
    [][(InSync /\ SourceRequestFailed /\ runs' = runs) =>
          (tx' = tx /\ reqLog' = reqLog /\ upserted' = upserted /\ docs' = docs)]_vars

\* A run that created an article for a task of L1, then failed on a page of
\* L2, has ended: the article is there.
C21_Witness ==
    /\ InSync /\ SourceRequestFailed /\ pc = "done" /\ saves = 1
    /\ IsPageRequest(tx.req) /\ tx.req.url[2] = "L2"
    /\ "create" \in reqLog /\ Len(upserted) = 2 /\ Len(docs) = 2

(***************************************************************************)
(* C22, as claimed: the count of a sync run goes up by one exactly in the  *)
(* steps in which a create or an update is answered with a success, so     *)
(* that the count reported is the number of records written.               *)
(***************************************************************************)
WriteSucceeds ==
    /\ pc \in {"create", "update"}
    /\ tx'.done /\ tx'.resps[Len(tx'.resps)] = "ok"

C22_CountIsRecordsWritten ==
    [][(InSync /\ runs' = runs) => ((count' = count + 1) <=> WriteSucceeds)]_vars

(***************************************************************************)
(* C23, as claimed: an article only ever holds the content of the task it  *)
(* was created for; no record's update lands on the article of another    *)
(* task.                                                                   *)
(***************************************************************************)
C23_SingleWriterPerSource ==
    \A i \in 1..Len(docs) : docs[i].body = docs[i].src

(***************************************************************************)
(* C24: with DRY_RUN set no step of a run, in any mode, sends a create, an *)
(* update or a delete, and no step changes the articles.                   *)
(***************************************************************************)
C24_DryRunFrame ==
    [][DRY_RUN => (docs' = docs /\ ~IsWrite(tx'.req))]_vars

C24_Witness ==
    /\ DRY_RUN /\ CLEANUP_DUPLICATES /\ ~DELETE_MODE /\ pc = "done"
    /\ tx.req = ListingRequest /\ tx.done
    /\ ToDelete(docs) # <<>>

(***************************************************************************)
(* C25, as claimed: with a webhook secret configured, a request whose      *)
(* X-Signature is not the HMAC-SHA256 of its body under the secret is      *)
(* answered 401 and no helper that fetches, writes or deletes is called.   *)
(***************************************************************************)
C25_WebhookAuthentication ==
    (/\ unit = "clickup_webhook" /\ upc = "answered"
     /\ CLICKUP_WEBHOOK_SECRET # <<>>
     /\ x_signature # hexdigest(CLICKUP_WEBHOOK_SECRET, raw))
        => (http_status = 401 /\ calls = <<>>)

=============================================================================
